---- MODULE Spec2Model ----
(***************************************************************************)
(* Model of src/Experiment-6.3/Server.js: the banking transfer API         *)
(* (lines 1-234, Express handlers in front of a Mongoose `User` model) and  *)
(* the middleware demo (lines 235-331, request logger and bearer-token     *)
(* authentication).                                                        *)
(*                                                                         *)
(* A handler runs without interruption between two `await`s, and nothing   *)
(* it does before its first store operation reads or changes the           *)
(* collection.  So one action of the model is one store operation taking   *)
(* effect, together with the handler code before it (back to the previous  *)
(* store operation, or to the arrival of the request) and the code after   *)
(* it (up to the next store operation it issues, or up to the response).   *)
(* Every store operation may fail; one that fails has had no effect on the *)
(* collection.                                                             *)
(***************************************************************************)
EXTENDS Integers, Sequences, FiniteSets, TLC

(***************************************************************************)
(* Bounds of the model.                                                    *)
(***************************************************************************)
\* POST /transfer requests that get past validation, over a whole run.
MaxTransfers == 2
\* POST /create-users requests over a whole run.
MaxSeeds == 1
\* Handlers (transfer or seed) suspended at an await at the same time.
MaxInFlight == 2
\* Chunks of an Authorization header.
MaxHeaderLen == 4
\* The largest stored balance to which a string amount may still be appended:
\* the model's integers are 32 bits wide, the program's numbers are doubles.
MaxBalance == 2000000

(***************************************************************************)
(* Program constants.                                                      *)
(***************************************************************************)
AliceBalance == 1000
BobBalance == 500

(***************************************************************************)
(* JavaScript values of a request body field.  A value is                  *)
(*   undefined          the field is absent,                               *)
(*   number n           a JSON number,                                     *)
(*   string n           a JSON string that is the decimal spelling of the  *)
(*                      natural number n ("200"),                          *)
(*   padded n           a JSON string that is a space and the decimal      *)
(*                      spelling of the natural number n (" 200"),         *)
(*   text               a string that spells no number ("abc", "500 200"), *)
(*   NaN                the result of arithmetic on a text.                *)
(***************************************************************************)
Undefined == [t |-> "undefined", n |-> 0]
Num(n) == [t |-> "number", n |-> n]
Str(n) == [t |-> "string", n |-> n]
Padded(n) == [t |-> "padded", n |-> n]
Text == [t |-> "text", n |-> 0]
NaN == [t |-> "NaN", n |-> 0]

\* !v
Falsy(v) == v.t \in {"undefined", "NaN"} \/ (v.t = "number" /\ v.n = 0)

\* Number(v), the conversion the relational and arithmetic operators apply.
ToNumber(v) ==
  CASE v.t = "number" -> v
    [] v.t = "string" -> Num(v.n)
    [] v.t = "padded" -> Num(v.n)
    [] OTHER -> NaN

\* v <= 0 (false when v converts to NaN)
LessEqZero(v) == ToNumber(v).t = "number" /\ ToNumber(v).n <= 0

\* b < v for a number b (false when v converts to NaN)
LessThan(b, v) == ToNumber(v).t = "number" /\ b < ToNumber(v).n

\* b - v for a number b: always numeric
Minus(b, v) == IF ToNumber(v).t = "number" THEN Num(b - ToNumber(v).n) ELSE NaN

RECURSIVE Digits(_)
\* The length of the decimal spelling of the natural number n.
Digits(n) == IF n < 10 THEN 1 ELSE 1 + Digits(n \div 10)

RECURSIVE Pow10(_)
Pow10(k) == IF k = 0 THEN 1 ELSE 10 * Pow10(k - 1)

\* String(b) + s for a natural b and the decimal string of n, read as a number.
Concat(b, n) == b * Pow10(Digits(n)) + n

\* b + v for a number b >= 0: addition for a number, concatenation for a string.
Plus(b, v) ==
  CASE v.t = "number" -> Num(b + v.n)
    [] v.t = "string" -> Str(Concat(b, v.n))
    [] v.t = "padded" -> Text
    [] v.t = "text" -> Text
    [] OTHER -> NaN

(***************************************************************************)
(* Identifiers sent by a client.  The store's identifiers are ObjectIds;   *)
(* a client names one by its 24 hex digits, in lower or in upper case.     *)
(***************************************************************************)
NoId == [t |-> "undefined", id |-> 0, upper |-> FALSE]
Malformed == [t |-> "malformed", id |-> 0, upper |-> FALSE]
Hex(i, up) == [t |-> "hex", id |-> i, upper |-> up]
\* A well-formed identifier that the store never assigns.
Ghost == Hex(0, FALSE)

(***************************************************************************)
(* The store: the `users` collection, and Mongoose documents.              *)
(***************************************************************************)
VARIABLES
  users,      \* the collection: ObjectId -> [name, balance, v]
  nextId,     \* the next ObjectId the store assigns
  transfers,  \* the POST /transfer handlers suspended at an await
  seeds,      \* the POST /create-users handlers suspended at an await
  boot,       \* the position of the startup initializeUsers()
  nT,         \* POST /transfer requests admitted so far
  nS,         \* POST /create-users requests so far
  res,        \* the HTTP response sent by the last step (op = "none": none)
  fin,        \* the handler that the last step finished, as it was then
  header,     \* middleware demo: the request's Authorization header
  stage,      \* middleware demo: the stage the request waits for
  calls,      \* middleware demo: the stages called for the request, in order
  authRes     \* middleware demo: the response to the request

bank == <<users, nextId, transfers, seeds, boot, nT, nS, res, fin>>
demo == <<header, stage, calls, authRes>>
vars == <<users, nextId, transfers, seeds, boot, nT, nS, res, fin,
          header, stage, calls, authRes>>

EmptyStore == [i \in {} |-> [name |-> "", balance |-> 0, v |-> 0]]

\* A document: the account's fields, the balance it was loaded with, whether
\* an assignment to it failed to cast, and the kind of the value that did.
NoDoc ==
  [id |-> -1, name |-> "", balance |-> 0, v |-> 0, was |-> 0, invalid |-> FALSE,
   bad |-> ""]

\* The document Mongoose hydrates from the stored account i.
Hydrate(store, i) ==
  [id |-> i, name |-> store[i].name, balance |-> store[i].balance,
   v |-> store[i].v, was |-> store[i].balance, invalid |-> FALSE, bad |-> ""]

\* User.findById(id) for a well-formed id: the document, or null.
FindById(store, ident) ==
  IF ident.id \in DOMAIN store THEN Hydrate(store, ident.id) ELSE NoDoc

\* The Number schema type's cast of an assigned value.
CastNumber(v) ==
  CASE v.t = "number" -> v
    [] v.t = "string" -> Num(v.n)
    [] v.t = "padded" -> Num(v.n)
    [] OTHER -> NaN

\* doc.balance = v: the value is cast; a value that does not cast marks the
\* document invalid and leaves its balance.
SetBalance(doc, v) ==
  IF CastNumber(v).t = "number"
  THEN [doc EXCEPT !.balance = CastNumber(v).n]
  ELSE [doc EXCEPT !.invalid = TRUE, !.bad = v.t]

\* The schema's validation at save(): the balance cast, and min: 0.
ValidDoc(doc) == ~doc.invalid /\ doc.balance >= 0

\* The error of a save() whose document fails validation.  Its message, which
\* the catch block passes on, quotes the value that failed and names its type.
ValidationError(doc) ==
  CASE doc.bad = "NaN" ->
         "ValidationError: Cast to Number failed for value NaN (type number)"
    [] doc.bad = "text" ->
         "ValidationError: Cast to Number failed for a value of type string"
    [] OTHER -> "ValidationError: balance is less than minimum allowed value (0)"

\* What an update by increment ($inc) would leave instead: the stored balance
\* plus the document's change.  save() does not do this.
SavedBalanceInc(stored, doc) == stored + (doc.balance - doc.was)

\* The balance that the update of save() leaves in the store: the document's.
SavedBalance(stored, doc) == doc.balance

\* What a save() with an optimistic-concurrency test would do instead: write
\* only when the stored balance is still the loaded one.
UpdateOneChecked(store, doc) ==
  IF doc.id \in DOMAIN store /\ store[doc.id].balance = doc.was
  THEN [store EXCEPT ![doc.id].balance = doc.balance]
  ELSE store

\* save() of a loaded document: updateOne({_id}, {$set: {balance}}).  The
\* filter names the _id alone; __v is neither tested nor incremented.  For a
\* document deleted since it was loaded the update matches nothing; whether
\* save() then resolves or rejects depends on the Mongoose version: it
\* resolves here, and the rejection is the `fail` case of the calling step.
UpdateOne(store, doc) ==
  IF doc.id \in DOMAIN store
  THEN [store EXCEPT ![doc.id].balance = SavedBalance(store[doc.id].balance, doc)]
  ELSE store

\* The two documents of initializeUsers and of POST /create-users.
SampleUsers ==
  << [name |-> "Alice", balance |-> AliceBalance, v |-> 0],
     [name |-> "Bob", balance |-> BobBalance, v |-> 0] >>

\* User.insertMany(docs): the documents get fresh ObjectIds, from `first` on.
InsertMany(store, first, docs) ==
  [i \in DOMAIN store \cup {first + j - 1 : j \in 1..Len(docs)} |->
     IF i \in DOMAIN store THEN store[i] ELSE docs[i - first + 1]]

\* What a deleteMany whose filter matched no document would leave instead.
DeleteManyNone(store) == store

\* User.deleteMany({})
DeleteMany(store) == EmptyStore

Sum(store) ==
  LET RECURSIVE S(_)
      S(D) == IF D = {} THEN 0
              ELSE LET i == CHOOSE x \in D : TRUE IN store[i].balance + S(D \ {i})
  IN S(DOMAIN store)

(***************************************************************************)
(* Responses.  `res` is the response sent by the last step; `fin` is the   *)
(* handler that sent it: its request, the documents it held, the number of  *)
(* save() calls that resolved, and the collection as it was when the       *)
(* request arrived (snap.ok is FALSE once another handler has changed the   *)
(* collection in between).                                                 *)
(***************************************************************************)
NoReq == [fromUserId |-> NoId, toUserId |-> NoId, amount |-> Undefined]
NoSnap == [ok |-> FALSE, users |-> EmptyStore]
Snap(store) == [ok |-> TRUE, users |-> store]

NoRes ==
  [op |-> "none", status |-> 0, message |-> "", error |-> "",
   senderBalance |-> 0, receiverBalance |-> 0, users |-> EmptyStore]
NoFin ==
  [op |-> "none", req |-> NoReq, sender |-> NoDoc, receiver |-> NoDoc,
   snap |-> NoSnap, writes |-> 0]

MsgMissing == "Missing required fields: fromUserId, toUserId, amount"
MsgAmount == "Amount must be greater than 0"
MsgSame == "Cannot transfer to same account"
MsgNoSender == "Sender account not found"
MsgNoReceiver == "Receiver account not found"
MsgInsufficient == "Insufficient balance"
MsgInvalidId == "Invalid user ID format"
MsgFailed == "Transfer failed"
MsgTransferred == "Transferred"
MsgCreated == "Users created"
MsgSeedError == "Error creating users"
MsgDeleted == "All users deleted"
MsgDeleteError == "Error deleting users"
MsgListError == "Error fetching users"
MsgNoUser == "User not found"
MsgGetError == "Error fetching user"

Reply(op, status, message) ==
  [NoRes EXCEPT !.op = op, !.status = status, !.message = message]

\* The handlers of `set` other than `self`, their snapshots dropped when the
\* step has changed the collection.
Others(set, self, changed) ==
  {IF changed THEN [x EXCEPT !.snap = NoSnap] ELSE x : x \in set \ {self}}

InFlight == Cardinality(transfers) + Cardinality(seeds)

\* Stands for the handler of a step that belongs to none of those suspended.
NoHandler == [rid |-> 0]

(***************************************************************************)
(* POST /transfer, lines 116-154.                                          *)
(***************************************************************************)
\* Lines 120-128: the message of the first check that fails, "" when none.
Validation(req) ==
  IF Falsy(req.fromUserId) \/ Falsy(req.toUserId) \/ Falsy(req.amount)
  THEN MsgMissing
  ELSE IF LessEqZero(req.amount) THEN MsgAmount
  ELSE IF req.fromUserId = req.toUserId THEN MsgSame
  ELSE ""

\* What a catch block without the test of error.name would answer instead.
CatchAllInvalidId(name) == Reply("transfer", 400, MsgInvalidId)

\* What a catch block that answers a CastError only would send instead: for
\* any other error, nothing.
CatchCastErrorOnly(name) ==
  IF name = "CastError" THEN Reply("transfer", 400, MsgInvalidId) ELSE NoRes

\* Lines 150-153: the response of the catch block to an error of that name.
CatchResponse(name) ==
  IF name = "CastError"
  THEN Reply("transfer", 400, MsgInvalidId)
  ELSE [Reply("transfer", 500, MsgFailed) EXCEPT !.error = name]

\* What line 138 would compute with the operator of line 141 instead.
DebitAdds(balance, amount) == Plus(balance, amount)

\* Line 138
Debit(balance, amount) == Minus(balance, amount)

\* Line 141
Credit(balance, amount) == Plus(balance, amount)

\* Line 136
Insufficient(balance, amount) == LessThan(balance, amount)

FinOf(t) ==
  [op |-> "transfer", req |-> t.req, sender |-> t.sender,
   receiver |-> t.receiver, snap |-> t.snap, writes |-> t.writes]

\* The handler t, as it is now (t2), sends `response` and ends.
TransferEnds(t, t2, response, store) ==
  /\ transfers' = Others(transfers, t, store # users)
  /\ seeds' = Others(seeds, t, store # users)
  /\ users' = store
  /\ res' = response
  /\ fin' = FinOf(t2)
  /\ nT' = IF t = NoHandler THEN nT + 1 ELSE nT
  /\ UNCHANGED <<nextId, boot, nS>>

\* The handler t goes on as t2, suspended at its next await.
TransferGoesOn(t, t2, store) ==
  /\ transfers' = Others(transfers, t, store # users) \cup {t2}
  /\ seeds' = Others(seeds, t, store # users)
  /\ users' = store
  /\ res' = NoRes
  /\ fin' = NoFin
  /\ nT' = IF t = NoHandler THEN nT + 1 ELSE nT
  /\ UNCHANGED <<nextId, boot, nS>>

\* Lines 116-128: a request that fails validation is answered at once.
TransferRejected(req) ==
  /\ Validation(req) # ""
  /\ res' = Reply("transfer", 400, Validation(req))
  /\ fin' = [NoFin EXCEPT !.op = "transfer", !.req = req, !.snap = Snap(users)]
  /\ UNCHANGED <<users, nextId, transfers, seeds, boot, nT, nS>>

\* The handler of a request that has just arrived.
NewTransfer(req) ==
  [rid |-> nT + 1, pc |-> "findSender", req |-> req, sender |-> NoDoc,
   receiver |-> NoDoc, snap |-> Snap(users), writes |-> 0]

\* A request whose amount is a string is taken up while the balance its
\* amount may be appended to (line 141) stays within the model's integers: one
\* such request under way at a time, every stored balance within MaxBalance.
StringFits(req) ==
  req.amount.t = "string" =>
    /\ \A t \in transfers : t.req.amount.t # "string"
    /\ \A i \in DOMAIN users : users[i].balance <= MaxBalance

\* Lines 116-133: a request that passes validation; findById(fromUserId)
\* settles; then findById(toUserId) is issued.
TransferAdmitted(req, fail) ==
  /\ Validation(req) = ""
  /\ nT < MaxTransfers
  /\ InFlight < MaxInFlight
  /\ StringFits(req)
  /\ IF req.fromUserId.t # "hex"
     THEN /\ TransferEnds(NoHandler, NewTransfer(req), CatchResponse("CastError"), users)
     ELSE IF fail
     THEN TransferEnds(NoHandler, NewTransfer(req), CatchResponse("MongoError"), users)
     ELSE IF FindById(users, req.fromUserId) = NoDoc
     THEN TransferEnds(NoHandler, NewTransfer(req),
                       Reply("transfer", 404, MsgNoSender), users)
     ELSE TransferGoesOn(NoHandler,
            [NewTransfer(req) EXCEPT !.pc = "findReceiver",
                                     !.sender = FindById(users, req.fromUserId)],
            users)

\* Lines 133-139: findById(toUserId) settles; the balance is checked, the sender
\* document is debited and its save() is issued.
FindReceiver(t, fail) ==
  /\ t.pc = "findReceiver"
  /\ IF t.req.toUserId.t # "hex"
     THEN TransferEnds(t, t, CatchResponse("CastError"), users)
     ELSE IF fail
     THEN TransferEnds(t, t, CatchResponse("MongoError"), users)
     ELSE IF FindById(users, t.req.toUserId) = NoDoc
     THEN TransferEnds(t, t, Reply("transfer", 404, MsgNoReceiver), users)
     ELSE LET t2 == [t EXCEPT !.receiver = FindById(users, t.req.toUserId)]
          IN IF Insufficient(t.sender.balance, t.req.amount)
             THEN TransferEnds(t, t2, Reply("transfer", 400, MsgInsufficient), users)
             ELSE TransferGoesOn(t,
                    [t2 EXCEPT !.pc = "saveSender",
                               !.sender = SetBalance(t.sender,
                                            Debit(t.sender.balance, t.req.amount))],
                    users)

\* Lines 139-142: sender.save() settles; the receiver document is credited and
\* its save() is issued.
SaveSender(t, fail) ==
  /\ t.pc = "saveSender"
  /\ IF ~ValidDoc(t.sender)
     THEN TransferEnds(t, t, CatchResponse(ValidationError(t.sender)), users)
     ELSE IF fail
     THEN TransferEnds(t, t, CatchResponse("MongoError"), users)
     ELSE TransferGoesOn(t,
            [t EXCEPT !.pc = "saveReceiver",
                      !.writes = t.writes + 1,
                      !.receiver = SetBalance(t.receiver,
                                     Credit(t.receiver.balance, t.req.amount))],
            UpdateOne(users, t.sender))

\* Lines 142-148: receiver.save() settles; the 200 response is sent.
SaveReceiver(t, fail) ==
  /\ t.pc = "saveReceiver"
  /\ IF ~ValidDoc(t.receiver)
     THEN TransferEnds(t, t, CatchResponse(ValidationError(t.receiver)), users)
     ELSE IF fail
     THEN TransferEnds(t, t, CatchResponse("MongoError"), users)
     ELSE TransferEnds(t, [t EXCEPT !.writes = t.writes + 1],
            [Reply("transfer", 200, MsgTransferred) EXCEPT
               !.senderBalance = t.sender.balance,
               !.receiverBalance = t.receiver.balance],
            UpdateOne(users, t.receiver))

(***************************************************************************)
(* POST /create-users, lines 81-109.                                       *)
(***************************************************************************)
\* The created documents as the 201 response lists them.
Created(first) == InsertMany(EmptyStore, first, SampleUsers)

SeedEnds(s, response, store, next) ==
  /\ seeds' = Others(seeds, s, store # users)
  /\ transfers' = Others(transfers, s, store # users)
  /\ users' = store
  /\ nextId' = next
  /\ res' = response
  /\ fin' = [NoFin EXCEPT !.op = "seed", !.snap = s.snap]
  /\ nS' = IF s.pc = "deleteMany" THEN nS + 1 ELSE nS
  /\ UNCHANGED <<boot, nT>>

\* The handler of a request that has just arrived.
NewSeed == [rid |-> nS + 1, pc |-> "deleteMany", snap |-> Snap(users)]

\* Lines 81-92: the request arrives; deleteMany({}) settles; then
\* insertMany(users) is issued.
SeedRequest(fail) ==
  /\ nS < MaxSeeds
  /\ InFlight < MaxInFlight
  /\ IF fail
     THEN SeedEnds(NewSeed, [Reply("seed", 500, MsgSeedError) EXCEPT !.error = "MongoError"],
                   users, nextId)
     ELSE /\ seeds' = Others(seeds, NoHandler, DeleteMany(users) # users)
                        \cup {[NewSeed EXCEPT !.pc = "insertMany"]}
          /\ transfers' = Others(transfers, NoHandler, DeleteMany(users) # users)
          /\ users' = DeleteMany(users)
          /\ nS' = nS + 1
          /\ res' = NoRes
          /\ fin' = NoFin
          /\ UNCHANGED <<nextId, boot, nT>>

\* Lines 92-108: insertMany(users) settles; the response is sent.
SeedInsert(s, fail) ==
  /\ s.pc = "insertMany"
  /\ IF fail
     THEN SeedEnds(s, [Reply("seed", 500, MsgSeedError) EXCEPT !.error = "MongoError"],
                   users, nextId)
     ELSE SeedEnds(s, [Reply("seed", 201, MsgCreated) EXCEPT !.users = Created(nextId)],
                   InsertMany(users, nextId, SampleUsers), nextId + Len(SampleUsers))

(***************************************************************************)
(* initializeUsers(), lines 52-71, called once at startup.                 *)
(***************************************************************************)
\* Lines 54-56: countDocuments() settles.
BootCount(fail) ==
  /\ boot = "count"
  /\ boot' = IF ~fail /\ Cardinality(DOMAIN users) = 0 THEN "insert" ELSE "done"
  /\ res' = NoRes
  /\ fin' = NoFin
  /\ UNCHANGED <<users, nextId, transfers, seeds, nT, nS>>

\* Lines 62-67: insertMany(users) settles.
BootInsert(fail) ==
  /\ boot = "insert"
  /\ boot' = "done"
  /\ users' = IF fail THEN users ELSE InsertMany(users, nextId, SampleUsers)
  /\ nextId' = IF fail THEN nextId ELSE nextId + Len(SampleUsers)
  /\ transfers' = Others(transfers, NoHandler, ~fail)
  /\ seeds' = Others(seeds, NoHandler, ~fail)
  /\ res' = NoRes
  /\ fin' = NoFin
  /\ UNCHANGED <<nT, nS>>

(***************************************************************************)
(* GET /users (160-169), GET /users/:id (175-184), DELETE /users (190-197): *)
(* one store operation each.                                               *)
(***************************************************************************)
ListUsers(fail) ==
  /\ res' = IF fail
            THEN [Reply("list", 500, MsgListError) EXCEPT !.error = "MongoError"]
            ELSE [Reply("list", 200, "") EXCEPT !.users = users]
  /\ fin' = NoFin
  /\ UNCHANGED <<users, nextId, transfers, seeds, boot, nT, nS>>

GetUser(ident, fail) ==
  /\ res' = IF ident.t # "hex" THEN Reply("get", 400, MsgInvalidId)
            ELSE IF fail
            THEN [Reply("get", 500, MsgGetError) EXCEPT !.error = "MongoError"]
            ELSE IF FindById(users, ident) = NoDoc THEN Reply("get", 404, MsgNoUser)
            ELSE [Reply("get", 200, "") EXCEPT
                    !.users = [i \in {ident.id} |-> users[i]]]
  /\ fin' = NoFin
  /\ UNCHANGED <<users, nextId, transfers, seeds, boot, nT, nS>>

DeleteAll(fail) ==
  /\ users' = IF fail THEN users ELSE DeleteMany(users)
  /\ transfers' = Others(transfers, NoHandler, users' # users)
  /\ seeds' = Others(seeds, NoHandler, users' # users)
  /\ res' = IF fail
            THEN [Reply("delete", 500, MsgDeleteError) EXCEPT !.error = "MongoError"]
            ELSE Reply("delete", 200, MsgDeleted)
  /\ fin' = NoFin
  /\ UNCHANGED <<nextId, boot, nT, nS>>

(***************************************************************************)
(* The requests clients send.  Identifiers: absent, malformed, and the hex *)
(* spelling of a stored account's id or of an id the store does not hold;   *)
(* the upper-case spelling is offered for toUserId.                        *)
(***************************************************************************)
Amounts == {Undefined, Num(0), Num(-400), Num(400), Str(400), Padded(400), Text}
FromIds(store) == {NoId, Malformed} \cup {Ghost} \cup {Hex(i, FALSE) : i \in DOMAIN store}
ToIds(store) == FromIds(store) \cup {Hex(i, TRUE) : i \in DOMAIN store}
Requests(store) ==
  [fromUserId : FromIds(store), toUserId : ToIds(store), amount : Amounts]

\* The requests of the concurrent specification: transfers between stored
\* accounts.
CoreAmounts == {Num(400), Str(400)}
CoreRequests(store) ==
  [fromUserId : {Hex(i, FALSE) : i \in DOMAIN store},
   toUserId : {Hex(i, FALSE) : i \in DOMAIN store},
   amount : CoreAmounts]

(***************************************************************************)
(* The middleware demo, lines 235-331: GET /protected passes through       *)
(* requestLogger (app.use), authenticateToken and the route handler.       *)
(*                                                                         *)
(* An Authorization header value is a sequence of chunks: words, and the   *)
(* whitespace characters space and tab.  The HTTP parser hands a value     *)
(* over without leading or trailing whitespace.                            *)
(***************************************************************************)
Secret == "mysecrettoken"
Space == " "
Tab == "\t"
Words == {"Bearer", "Basic", Secret, "wrongtoken"}
Chunks == Words \cup {Space, Tab}

NoHeader == [present |-> FALSE, value |-> <<>>]
Header(v) == [present |-> TRUE, value |-> v]

HeaderValues ==
  {v \in UNION {[1..n -> Chunks] : n \in 0..MaxHeaderLen} :
     Len(v) > 0 => v[1] \in Words /\ v[Len(v)] \in Words}
Headers == {NoHeader} \cup {Header(v) : v \in HeaderValues}

RECURSIVE SplitOn(_, _)
\* String.prototype.split(sep) for a one-character separator: the pieces
\* between its occurrences; two occurrences in a row enclose an empty piece.
SplitOn(v, sep) ==
  IF v = <<>> THEN << <<>> >>
  ELSE LET rest == SplitOn(Tail(v), sep)
       IN IF Head(v) = sep
          THEN << <<>> >> \o rest
          ELSE << <<Head(v)>> \o Head(rest) >> \o Tail(rest)

\* Line 276: authHeader.split(' ')[1]; undefined when there is one piece only.
Token(v) ==
  IF Len(SplitOn(v, Space)) >= 2
  THEN [defined |-> TRUE, value |-> SplitOn(v, Space)[2]]
  ELSE [defined |-> FALSE, value |-> <<>>]

\* What a test for the mere presence of a second piece would accept instead.
IsAnyToken(tok) == tok.defined

\* Line 279: token === 'mysecrettoken'
IsSecret(tok) == tok.defined /\ tok.value = <<Secret>>

MsgUnauthorized == "Authorization header missing or incorrect"
MsgProtected == "You have accessed a protected route with a valid Bearer token!"
NoAuthRes == [status |-> 0, message |-> ""]

\* Lines 246-255: requestLogger logs the request and calls next().
RequestLogger ==
  /\ stage = "requestLogger"
  /\ calls' = Append(calls, "requestLogger")
  /\ stage' = "authenticateToken"
  /\ UNCHANGED <<header, authRes>>

\* Lines 264-288: authenticateToken answers 401 or calls next().
AuthenticateToken ==
  /\ stage = "authenticateToken"
  /\ calls' = Append(calls, "authenticateToken")
  /\ IF ~header.present \/ header.value = <<>>
     THEN /\ authRes' = [status |-> 401, message |-> MsgUnauthorized]
          /\ stage' = "done"
     ELSE IF IsSecret(Token(header.value))
     THEN /\ stage' = "handler"
          /\ UNCHANGED authRes
     ELSE /\ authRes' = [status |-> 401, message |-> MsgUnauthorized]
          /\ stage' = "done"
  /\ UNCHANGED header

\* Lines 302-306: the route handler of GET /protected.
ProtectedHandler ==
  /\ stage = "handler"
  /\ calls' = Append(calls, "handler")
  /\ authRes' = [status |-> 200, message |-> MsgProtected]
  /\ stage' = "done"
  /\ UNCHANGED header

Init ==
  /\ users = EmptyStore
  /\ nextId = 1
  /\ transfers = {}
  /\ seeds = {}
  /\ boot = "count"
  /\ nT = 0
  /\ nS = 0
  /\ res = NoRes
  /\ fin = NoFin
  /\ header = NoHeader
  /\ stage = "idle"
  /\ calls = <<>>
  /\ authRes = NoAuthRes

\* The last response has gone out to its client.
Delivered ==
  /\ res.op # "none"
  /\ res' = NoRes
  /\ fin' = NoFin
  /\ UNCHANGED <<users, nextId, transfers, seeds, boot, nT, nS>>

\* A request arrives once the last response has gone out.
Free == res.op = "none"

\* No handler is suspended: the request that arrives overlaps no other.
Quiet == transfers = {} /\ seeds = {}

\* Requests overlap freely; the transfers are between stored accounts.
Next ==
  \/ Free /\ \E req \in CoreRequests(users) : TransferRejected(req) /\ UNCHANGED demo
  \/ Free /\ \E req \in CoreRequests(users), fail \in BOOLEAN :
       TransferAdmitted(req, fail) /\ UNCHANGED demo
  \/ \E t \in transfers, fail \in BOOLEAN : FindReceiver(t, fail) /\ UNCHANGED demo
  \/ \E t \in transfers, fail \in BOOLEAN : SaveSender(t, fail) /\ UNCHANGED demo
  \/ \E t \in transfers, fail \in BOOLEAN : SaveReceiver(t, fail) /\ UNCHANGED demo
  \/ Free /\ \E fail \in BOOLEAN : SeedRequest(fail) /\ UNCHANGED demo
  \/ \E s \in seeds, fail \in BOOLEAN : SeedInsert(s, fail) /\ UNCHANGED demo
  \/ \E fail \in BOOLEAN : BootCount(fail) /\ UNCHANGED demo
  \/ \E fail \in BOOLEAN : BootInsert(fail) /\ UNCHANGED demo
  \/ Free /\ \E fail \in BOOLEAN : ListUsers(fail) /\ UNCHANGED demo
  \/ Free /\ \E ident \in FromIds(users) \ {NoId}, fail \in BOOLEAN :
       GetUser(ident, fail) /\ UNCHANGED demo
  \/ Free /\ \E fail \in BOOLEAN : DeleteAll(fail) /\ UNCHANGED demo
  \/ Delivered /\ UNCHANGED demo

Spec == Init /\ [][Next]_vars

\* A request arrives only when no handler is under way; any request.
SerialNext ==
  \/ Free /\ Quiet /\ \E req \in Requests(users) : TransferRejected(req) /\ UNCHANGED demo
  \/ Free /\ Quiet /\ \E req \in Requests(users), fail \in BOOLEAN :
       TransferAdmitted(req, fail) /\ UNCHANGED demo
  \/ \E t \in transfers, fail \in BOOLEAN : FindReceiver(t, fail) /\ UNCHANGED demo
  \/ \E t \in transfers, fail \in BOOLEAN : SaveSender(t, fail) /\ UNCHANGED demo
  \/ \E t \in transfers, fail \in BOOLEAN : SaveReceiver(t, fail) /\ UNCHANGED demo
  \/ Free /\ Quiet /\ \E fail \in BOOLEAN : SeedRequest(fail) /\ UNCHANGED demo
  \/ \E s \in seeds, fail \in BOOLEAN : SeedInsert(s, fail) /\ UNCHANGED demo
  \/ \E fail \in BOOLEAN : BootCount(fail) /\ UNCHANGED demo
  \/ \E fail \in BOOLEAN : BootInsert(fail) /\ UNCHANGED demo
  \/ Free /\ Quiet /\ \E fail \in BOOLEAN : ListUsers(fail) /\ UNCHANGED demo
  \/ Free /\ Quiet /\ \E ident \in FromIds(users) \ {NoId}, fail \in BOOLEAN :
       GetUser(ident, fail) /\ UNCHANGED demo
  \/ Free /\ Quiet /\ \E fail \in BOOLEAN : DeleteAll(fail) /\ UNCHANGED demo
  \/ Delivered /\ UNCHANGED demo

Serial == Init /\ [][SerialNext]_vars

\* The transfers of NoFailure: between stored accounts, the amount a number.
NumberRequests(store) == {req \in CoreRequests(store) : req.amount.t = "number"}

\* Requests overlap freely and no store operation fails: startup, seeding and
\* transfers whose amount is a number.
NoFailureNext ==
  \/ Free /\ \E req \in NumberRequests(users) : TransferRejected(req) /\ UNCHANGED demo
  \/ Free /\ \E req \in NumberRequests(users) :
       TransferAdmitted(req, FALSE) /\ UNCHANGED demo
  \/ \E t \in transfers : FindReceiver(t, FALSE) /\ UNCHANGED demo
  \/ \E t \in transfers : SaveSender(t, FALSE) /\ UNCHANGED demo
  \/ \E t \in transfers : SaveReceiver(t, FALSE) /\ UNCHANGED demo
  \/ Free /\ SeedRequest(FALSE) /\ UNCHANGED demo
  \/ \E s \in seeds : SeedInsert(s, FALSE) /\ UNCHANGED demo
  \/ BootCount(FALSE) /\ UNCHANGED demo
  \/ BootInsert(FALSE) /\ UNCHANGED demo
  \/ Delivered /\ UNCHANGED demo

NoFailure == Init /\ [][NoFailureNext]_vars

\* The transfers of Live: every kind of identifier; an amount that passes, one
\* that is refused and one that makes the sender's save() reject.
LiveRequests(store) ==
  {req \in Requests(store) : req.amount \in {Num(400), Num(-400), Text}}

\* Startup and overlapping transfer requests, store operations failing or not.
LiveNext ==
  \/ Free /\ \E req \in LiveRequests(users) : TransferRejected(req) /\ UNCHANGED demo
  \/ Free /\ \E req \in LiveRequests(users), fail \in BOOLEAN :
       TransferAdmitted(req, fail) /\ UNCHANGED demo
  \/ \E t \in transfers, fail \in BOOLEAN : FindReceiver(t, fail) /\ UNCHANGED demo
  \/ \E t \in transfers, fail \in BOOLEAN : SaveSender(t, fail) /\ UNCHANGED demo
  \/ \E t \in transfers, fail \in BOOLEAN : SaveReceiver(t, fail) /\ UNCHANGED demo
  \/ \E fail \in BOOLEAN : BootCount(fail) /\ UNCHANGED demo
  \/ \E fail \in BOOLEAN : BootInsert(fail) /\ UNCHANGED demo
  \/ Delivered /\ UNCHANGED demo

\* Every store operation a handler awaits settles: it resolves or it rejects.
Settles ==
  /\ WF_vars(\E t \in transfers, fail \in BOOLEAN : FindReceiver(t, fail) /\ UNCHANGED demo)
  /\ WF_vars(\E t \in transfers, fail \in BOOLEAN : SaveSender(t, fail) /\ UNCHANGED demo)
  /\ WF_vars(\E t \in transfers, fail \in BOOLEAN : SaveReceiver(t, fail) /\ UNCHANGED demo)

Live == Init /\ [][LiveNext]_vars /\ Settles

\* The middleware demo: one GET /protected request with any header.
AuthInit ==
  /\ users = EmptyStore
  /\ nextId = 1
  /\ transfers = {}
  /\ seeds = {}
  /\ boot = "count"
  /\ nT = 0
  /\ nS = 0
  /\ res = NoRes
  /\ fin = NoFin
  /\ header \in Headers
  /\ stage = "requestLogger"
  /\ calls = <<>>
  /\ authRes = NoAuthRes

AuthNext ==
  \/ RequestLogger /\ UNCHANGED bank
  \/ AuthenticateToken /\ UNCHANGED bank
  \/ ProtectedHandler /\ UNCHANGED bank

AuthSpec == AuthInit /\ [][AuthNext]_vars

(***************************************************************************)
(* The claims.  In a state that a response has just led to, `res` is the   *)
(* response and `fin` the handler that sent it; fin.snap.ok says that no    *)
(* other handler has changed the collection since the request arrived.     *)
(***************************************************************************)
Answered(op) == res.op = op
AmountOf(req) == ToNumber(req.amount).n
Balances(store) == [i \in DOMAIN store |-> store[i].balance]

\* C1 (as claimed, for transfers between two different accounts): a transfer
\* answered 200 with no other request interleaved has debited the sender by
\* amount, credited the receiver by amount, kept the sum of the two balances,
\* and reports the two stored balances.
C1_TransferPostcondition ==
  (/\ Answered("transfer")
   /\ res.status = 200
   /\ fin.snap.ok
   /\ fin.sender.id # fin.receiver.id) =>
    LET old == fin.snap.users
        sid == fin.sender.id
        rid == fin.receiver.id
    IN /\ users[sid].balance = old[sid].balance - AmountOf(fin.req)
       /\ users[rid].balance = old[rid].balance + AmountOf(fin.req)
       /\ users[sid].balance + users[rid].balance
            = old[sid].balance + old[rid].balance
       /\ res.senderBalance = users[sid].balance
       /\ res.receiverBalance = users[rid].balance

\* C2: in every reachable state every stored account has balance >= 0.
C2_BalanceNonNegative == \A i \in DOMAIN users : users[i].balance >= 0

\* Two transfers that loaded the same sender, and together debit more than it
\* held, have both written their debit.
C2_Witness ==
  \E t1, t2 \in transfers :
    /\ t1.rid # t2.rid
    /\ t1.sender.id = t2.sender.id
    /\ t1.pc = "saveReceiver" /\ t2.pc = "saveReceiver"
    /\ t1.sender.was < AmountOf(t1.req) + AmountOf(t2.req)

\* C3: a transfer answered 400 or 404 has had no save() resolve, and without
\* another handler's write in between the collection is as the request found it.
C3_RejectedNoWrite ==
  (Answered("transfer") /\ res.status \in {400, 404}) =>
    /\ fin.writes = 0
    /\ fin.snap.ok => users = fin.snap.users

\* A transfer is refused for insufficient balance after an earlier transfer
\* has changed the balances.
C3_Witness ==
  /\ Answered("transfer")
  /\ res.message = MsgInsufficient
  /\ fin.snap.ok
  /\ \E i \in DOMAIN users : users[i].balance \notin {AliceBalance, BobBalance}

\* The two identifiers of the request name the same stored account.
SameStoredAccount(req, store) ==
  /\ req.fromUserId.t = "hex"
  /\ req.toUserId.t = "hex"
  /\ req.fromUserId.id = req.toUserId.id
  /\ req.fromUserId.id \in DOMAIN store

\* C4 (as claimed, for the amounts that are numbers greater than 0, when no
\* store operation fails): a transfer whose two identifiers denote the same
\* account is answered 400 "Cannot transfer to same account" before any account
\* is loaded, and no balance changes.
C4_SameAccountRejected ==
  (/\ Answered("transfer")
   /\ fin.snap.ok
   /\ res.error # "MongoError"
   /\ SameStoredAccount(fin.req, fin.snap.users)
   /\ fin.req.amount.t = "number"
   /\ fin.req.amount.n > 0) =>
    /\ res.status = 400
    /\ res.message = MsgSame
    /\ fin.sender = NoDoc
    /\ fin.receiver = NoDoc
    /\ users = fin.snap.users

Present(v) == v.t # "undefined"

\* C5 (as claimed): a transfer with its three fields present is never answered
\* "Missing required fields", and is answered "Amount must be greater than 0"
\* when its amount is the number 0 or a negative number.
C5_PresentFieldsNotMissing ==
  (/\ Answered("transfer")
   /\ Present(fin.req.fromUserId)
   /\ Present(fin.req.toUserId)
   /\ Present(fin.req.amount)) =>
    /\ res.message # MsgMissing
    /\ (fin.req.amount.t = "number" /\ fin.req.amount.n <= 0) =>
         (res.status = 400 /\ res.message = MsgAmount)

\* C6: a POST /create-users answered 201, with no other handler's write in
\* between, leaves exactly the two sample accounts, none of them an account
\* that existed before, and lists exactly them.
C6_SeedReplaces ==
  (Answered("seed") /\ res.status = 201 /\ fin.snap.ok) =>
    /\ Cardinality(DOMAIN users) = 2
    /\ \E a, b \in DOMAIN users :
         /\ users[a].name = "Alice" /\ users[a].balance = 1000
         /\ users[b].name = "Bob" /\ users[b].balance = 500
    /\ DOMAIN users \cap DOMAIN fin.snap.users = {}
    /\ res.users = users

\* The seeding replaced accounts whose balances transfers had changed.
C6_Witness ==
  /\ Answered("seed")
  /\ res.status = 201
  /\ fin.snap.ok
  /\ \E i \in DOMAIN fin.snap.users :
       fin.snap.users[i].balance \notin {AliceBalance, BobBalance}

\* C7: when a transfer ends in an error after exactly one save() resolved (the
\* receiver's failed), the answer is the generic 500, and without another
\* handler's write in between the collection differs from what the request
\* found only in the sender's balance, which is lower by the amount: nothing is
\* credited, nothing is rolled back.
C7_PartialFailure ==
  (Answered("transfer") /\ fin.writes = 1) =>
    /\ res.status = 500
    /\ res.message = MsgFailed
    /\ fin.snap.ok =>
         /\ users = [fin.snap.users EXCEPT
                       ![fin.sender.id].balance = @ - AmountOf(fin.req)]
         /\ Sum(users) = Sum(fin.snap.users) - AmountOf(fin.req)

\* The receiver's save() failed after the sender's had resolved.
C7_Witness ==
  /\ Answered("transfer")
  /\ fin.writes = 1
  /\ res.status = 500
  /\ fin.snap.ok
  /\ fin.sender.id # fin.receiver.id

BearerWrong == Header(<<"Bearer", Space, "wrongtoken">>)
BearerSecret == Header(<<"Bearer", Space, Secret>>)
Unauthorized == [status |-> 401, message |-> MsgUnauthorized]

\* C8: GET /protected without an Authorization header and with "Bearer
\* wrongtoken" is answered 401 with one and the same body and the route handler
\* is not called; with "Bearer mysecrettoken" the handler is called and the
\* answer is 200.
C8_Protected ==
  stage = "done" =>
    /\ header \in {NoHeader, BearerWrong} =>
         (authRes = Unauthorized /\ \A i \in DOMAIN calls : calls[i] # "handler")
    /\ header = BearerSecret =>
         /\ authRes.status = 200
         /\ calls = <<"requestLogger", "authenticateToken", "handler">>

\* The request with the wrong token has been answered.
C8_Witness == stage = "done" /\ header = BearerWrong /\ authRes.status = 401

\* The outcome the claimed order of checks gives a request, on the collection
\* as the request found it: fields present, amount > 0, fromId # toId, sender
\* loaded, receiver loaded, sender.balance >= amount.
ClaimedOutcome(req, store) ==
  IF ~Present(req.fromUserId) \/ ~Present(req.toUserId) \/ ~Present(req.amount)
  THEN MsgMissing
  ELSE IF ~(ToNumber(req.amount).t = "number" /\ ToNumber(req.amount).n > 0)
  THEN MsgAmount
  ELSE IF req.fromUserId = req.toUserId THEN MsgSame
  ELSE IF req.fromUserId.t = "malformed" THEN MsgInvalidId
  ELSE IF req.fromUserId.id \notin DOMAIN store THEN MsgNoSender
  ELSE IF req.toUserId.t = "malformed" THEN MsgInvalidId
  ELSE IF req.toUserId.id \notin DOMAIN store THEN MsgNoReceiver
  ELSE IF store[req.fromUserId.id].balance < ToNumber(req.amount).n
  THEN MsgInsufficient
  ELSE MsgTransferred

\* C9 (as claimed): the answer to a transfer, when no store operation fails
\* and no other handler writes in between, is that of the first failing check
\* in the claimed order.
C9_FirstFailingCheck ==
  (Answered("transfer") /\ fin.snap.ok /\ res.error # "MongoError") =>
    res.message = ClaimedOutcome(fin.req, fin.snap.users)

\* C10: a save() that resolves leaves the document's balance in the store,
\* whatever the store held: the balance computed from the value the handler
\* loaded, with no test of what was stored since.
C10_LastWriteWins ==
  [][\A t \in transfers : \A t2 \in transfers' :
       (/\ t.rid = t2.rid
        /\ t.pc = "saveSender"
        /\ t2.pc = "saveReceiver"
        /\ t.sender.id \in DOMAIN users) =>
         /\ users'[t.sender.id].balance = t.sender.balance
         /\ users'[t.sender.id].balance = t.sender.was - AmountOf(t.req)]_vars

\* Two transfers loaded the same sender before either saved it; both saves
\* resolved and the store holds one debit only.
C10_Witness ==
  \E t1, t2 \in transfers :
    /\ t1.rid # t2.rid
    /\ t1.sender.id = t2.sender.id
    /\ t1.sender.id \in DOMAIN users
    /\ t1.sender.was = t2.sender.was
    /\ t1.writes = 1 /\ t2.writes = 1
    /\ users[t1.sender.id].balance = t1.sender.was - AmountOf(t1.req)

\* C11 (as claimed): after a committed transfer, one answered 200 with no other
\* request interleaved, the revision (__v) of the sender and of the receiver is
\* strictly greater than before it.
C11_RevisionIncremented ==
  (Answered("transfer") /\ res.status = 200 /\ fin.snap.ok) =>
    /\ users[fin.sender.id].v > fin.snap.users[fin.sender.id].v
    /\ users[fin.receiver.id].v > fin.snap.users[fin.receiver.id].v

\* The error messages of a transfer that fails before any write: that of a
\* store operation that fails, and that of the sender document's validation
\* (the sender's new balance is the result of a subtraction, NaN when invalid).
BeforeWriteErrors == {"MongoError", ValidationError(SetBalance(NoDoc, NaN))}

\* C12 (as claimed): a transfer answered 500 has the fields message 'Transfer
\* failed' and error, the error's message, and no other; and the answer to one
\* between two different accounts that failed after the debit was persisted
\* is an answer that a failure before any write gives as well.
C12_FailureIndistinguishable ==
  (Answered("transfer") /\ res.status = 500) =>
    /\ res = [Reply("transfer", 500, MsgFailed) EXCEPT !.error = res.error]
    /\ (fin.writes = 1 /\ fin.sender.id # fin.receiver.id) =>
         res.error \in BeforeWriteErrors

\* The whitespace-separated tokens of a header value: its maximal runs of
\* chunks that are not whitespace.
WhitespaceTokens(v) ==
  SelectSeq(SplitOn([i \in 1..Len(v) |-> IF v[i] = Tab THEN Space ELSE v[i]], Space),
            LAMBDA piece : piece # <<>>)

\* C13 (as claimed, for headers that begin with the word Bearer and whose
\* whitespace is spaces): GET /protected is passed through, and answered 200,
\* exactly when the header has a second whitespace-separated token and that
\* token is the secret; otherwise it is answered 401.
C13_SecondTokenDecides ==
  (/\ stage = "done"
   /\ header.present
   /\ header.value # <<>>
   /\ Head(header.value) = "Bearer"
   /\ \A i \in DOMAIN header.value : header.value[i] # Tab) =>
    LET tokens == WhitespaceTokens(header.value)
        pass == Len(tokens) >= 2 /\ tokens[2] = <<Secret>>
    IN /\ pass => authRes.status = 200
       /\ ~pass => authRes.status = 401

\* C14 (as claimed): with the accounts seeded at startup, no seeding since and
\* no store operation failing, once every transfer request has been answered
\* the sum of the stored balances is the sum seeded, 1500.
C14_ConcurrentConservation ==
  (Quiet /\ boot = "done" /\ nS = 0) =>
    Sum(users) = AliceBalance + BobBalance

\* C15 (as claimed): when the startup seeding and a POST /create-users have
\* both completed, no store operation having failed and no transfer having
\* been made, the store holds exactly two accounts, Alice with 1000 and Bob
\* with 500.
C15_OverlappingSeeds ==
  (Quiet /\ boot = "done" /\ nS >= 1 /\ nT = 0) =>
    /\ Cardinality(DOMAIN users) = 2
    /\ \E a, b \in DOMAIN users :
         /\ users[a].name = "Alice" /\ users[a].balance = AliceBalance
         /\ users[b].name = "Bob" /\ users[b].balance = BobBalance

\* The requests whose handlers are suspended at an await.
Rids(set) == {t.rid : t \in set}

\* C16: in every step a handler that ends has sent a response, the response
\* of the step (also the handler of a request that ends on arrival); no step
\* ends two handlers; a handler that has ended does not come back; a 200
\* response follows two save() calls that resolved; and, every awaited store
\* operation settling, every handler ends.
C16_ExactlyOneResponse ==
  /\ [][/\ \A rid \in Rids(transfers) \ Rids(transfers') : res'.op = "transfer"
        /\ (nT' = nT + 1 /\ nT + 1 \notin Rids(transfers')) => res'.op = "transfer"
        /\ Cardinality(Rids(transfers) \ Rids(transfers')) <= 1
        /\ Rids(transfers') \subseteq Rids(transfers) \cup {nT + 1}
        /\ Rids(transfers') \ Rids(transfers) # {} => nT' = nT + 1
        /\ (res'.op = "transfer" /\ res'.status = 200) => fin'.writes = 2]_vars
  /\ \A rid \in 1..MaxTransfers :
       (rid \in Rids(transfers)) ~> (rid \notin Rids(transfers))

\* A transfer between two accounts has been answered 200 while another
\* request was under way.
C16_Witness ==
  /\ Answered("transfer")
  /\ res.status = 200
  /\ fin.writes = 2
  /\ fin.sender.id # fin.receiver.id
  /\ transfers # {}

====
